---------------------------- MODULE Spec2Model ----------------------------
(***************************************************************************)
(* Model of the OneUp solver (package oneup/solver, oneup/actions.py,      *)
(* oneup/game.py, grid/).  A state is one OneUpSolver together with its    *)
(* OneUp game and its ActionQueue; the actions are the calls of the        *)
(* solver's control surface: step_solver, perform_action, undo, redo and   *)
(* reset.                                                                  *)
(*                                                                         *)
(* Positions are pairs <<row, col>>, 0-based.  Python sets of positions    *)
(* are enumerated in row-major order wherever the order only decides the   *)
(* order of commuting RemovePossibleValue actions; where the order decides *)
(* WHICH result is produced (detect_groups, complete_chain) every order is *)
(* an outcome of the model.                                                *)
(***************************************************************************)
EXTENDS Integers, Sequences, FiniteSets, TLC

(***************************************************************************)
(* Bounds of the model.                                                    *)
(***************************************************************************)
\* user SetPosition values are 0..MaxVal (0 is the UI's clear)
MaxVal == 3
\* a batch is only started while the log holds at most MaxLog entries
MaxLog == 6
\* number of perform_action(SetPosition) batches in one behaviour
MaxEdits == 1
\* number of reset() calls in one behaviour
MaxResets == 1
\* number of perform_action(AddHint / RemoveHint) batches in one behaviour
MaxHintCalls == 2

\* SetPosition, hint and reset calls together are fewer than MaxCalls + 1
MaxCalls == 2
\* blocked cells and walls, together, of a drawn game
MaxObstacles == 2

(***************************************************************************)
(* Optional values: None is <<>>, Some(x) is <<x>>.                        *)
(***************************************************************************)
None == <<>>

Some(x) == <<x>>

Min2(a, b) == IF a <= b THEN a ELSE b

(***************************************************************************)
(* grid/position.py, grid/grid.py                                          *)
(***************************************************************************)
UP == <<-1, 0>>

DOWN == <<1, 0>>

LEFT == <<0, -1>>

RIGHT == <<0, 1>>

\* Position.neighbour / Position.add
neighbour(p, d) == <<p[1] + d[1], p[2] + d[2]>>

\* Position.__lt__: lexicographic on (row, col)
PosLess(a, b) == a[1] < b[1] \/ (a[1] = b[1] /\ a[2] < b[2])

\* Position.alignment
alignment(a, b) ==
  IF a[1] = b[1] THEN "horizontal"
  ELSE IF a[2] = b[2] THEN "vertical"
  ELSE "none"

\* Grid.is_in_bounds
is_in_bounds(size, p) == p[1] >= 0 /\ p[1] < size /\ p[2] >= 0 /\ p[2] < size

\* Grid.all_positions: row-major enumeration
all_positions(size) ==
  [i \in 1..(size * size) |-> <<(i - 1) \div size, (i - 1) % size>>]

PositionSet(size) == (0..(size - 1)) \X (0..(size - 1))

\* a Python set of positions, enumerated row-major
SortedPositions(size, S) == SelectSeq(all_positions(size), LAMBDA p: p \in S)

\* the values of a set, ascending
RECURSIVE SortedValues(_)
SortedValues(S) ==
  IF S = {} THEN <<>>
  ELSE LET m == CHOOSE x \in S: \A y \in S: x <= y
       IN <<m>> \o SortedValues(S \ {m})

(***************************************************************************)
(* oneup/game.py                                                           *)
(***************************************************************************)
\* Wall.from_positions: the sorted pair
Wall(a, b) == IF PosLess(a, b) THEN <<a, b>> ELSE <<b, a>>

\* OneUp.free_positions, in enumeration order
free_positions(g) ==
  SelectSeq(all_positions(g.size), LAMBDA p: p \notin g.blocked_positions)

FreeSet(g) == PositionSet(g.size) \ g.blocked_positions

\* the loop of _find_visible_positions_in_direction without the test of
\* the walls
RECURSIVE WalkDirectionThroughWalls(_, _, _)
WalkDirectionThroughWalls(g, prev, direction) ==
  LET position == neighbour(prev, direction)
  IN IF ~is_in_bounds(g.size, position) THEN {}
     ELSE IF position \in g.blocked_positions THEN {}
     ELSE {position} \cup WalkDirectionThroughWalls(g, position, direction)

\* the loop of OneUp._find_visible_positions_in_direction
RECURSIVE WalkDirection(_, _, _)
WalkDirection(g, prev, direction) ==
  LET position == neighbour(prev, direction)
  IN IF ~is_in_bounds(g.size, position) THEN {}
     ELSE IF position \in g.blocked_positions THEN {}
     ELSE IF Wall(prev, position) \in g.walls THEN {}
     ELSE {position} \cup WalkDirection(g, position, direction)

\* OneUp._find_visible_positions_in_direction
find_visible_positions_in_direction(g, origin, direction) ==
  IF origin \in g.blocked_positions THEN {}
  ELSE {origin} \cup WalkDirection(g, origin, direction)

\* OneUp._find_vertical_group
find_vertical_group(g, p) ==
  find_visible_positions_in_direction(g, p, UP)
    \cup find_visible_positions_in_direction(g, p, DOWN)

\* OneUp._find_horizontal_group
find_horizontal_group(g, p) ==
  find_visible_positions_in_direction(g, p, LEFT)
    \cup find_visible_positions_in_direction(g, p, RIGHT)

find_group(g, p, axis) ==
  IF axis = "horizontal" THEN find_horizontal_group(g, p)
  ELSE find_vertical_group(g, p)

\* the scan of OneUp.horizontal_vision / vertical_vision: every position
\* not yet seen marks its whole group as mutually visible
RECURSIVE VisionScan(_, _, _, _, _)
VisionScan(g, axis, i, seen, result) ==
  LET fp == free_positions(g)
  IN IF i > Len(fp) THEN result
     ELSE IF fp[i] \in seen THEN VisionScan(g, axis, i + 1, seen, result)
     ELSE LET group == find_group(g, fp[i], axis)
              marked == [p \in PositionSet(g.size) |->
                           IF p \in group THEN result[p] \cup group
                           ELSE result[p]]
          IN VisionScan(g, axis, i + 1, seen \cup group, marked)

horizontal_vision(g) ==
  VisionScan(g, "horizontal", 1, {}, [p \in PositionSet(g.size) |-> {}])

vertical_vision(g) ==
  VisionScan(g, "vertical", 1, {}, [p \in PositionSet(g.size) |-> {}])

\* OneUp.vision (a dictionary over the free positions)
vision(g) ==
  [p \in PositionSet(g.size) |->
     IF p \in g.blocked_positions THEN {}
     ELSE vertical_vision(g)[p] \cup horizontal_vision(g)[p]]

\* OneUp.all_vision_groups: per free position, its vertical group and then
\* its horizontal group, each unless already yielded
RECURSIVE VisionGroupsFrom(_, _, _, _)
VisionGroupsFrom(g, i, vert_seen, horizontal_seen) ==
  LET fp == free_positions(g)
  IN IF i > Len(fp) THEN <<>>
     ELSE LET p == fp[i]
              vg == find_vertical_group(g, p)
              hg == find_horizontal_group(g, p)
              vs == IF p \notin vert_seen THEN <<vg>> ELSE <<>>
              hs == IF p \notin horizontal_seen THEN <<hg>> ELSE <<>>
          IN vs \o hs \o
             VisionGroupsFrom(g, i + 1,
               IF p \notin vert_seen THEN vert_seen \cup vg ELSE vert_seen,
               IF p \notin horizontal_seen THEN horizontal_seen \cup hg
               ELSE horizontal_seen)

all_vision_groups(g) == VisionGroupsFrom(g, 1, {}, {})

\* the OneUp object after __post_init__, with its cached properties and the
\* values of its generators (which depend on size, walls and blocked cells
\* only) evaluated; `values` are the clues of the grid it is built on
MakeGame(size, values, walls, blocked) ==
  LET g == [size |-> size, walls |-> walls, blocked_positions |-> blocked]
  IN [size |-> size, walls |-> walls, blocked_positions |-> blocked,
      fixed_positions |-> {p \in FreeSet(g): values[p] > 0},
      horizontal_vision |-> horizontal_vision(g),
      vertical_vision |-> vertical_vision(g),
      vision |-> vision(g),
      free_positions |-> free_positions(g),
      all_vision_groups |-> all_vision_groups(g)]

\* max_allowed_value from the horizontal group alone
max_allowed_value_horizontal(g, p) == Cardinality(g.horizontal_vision[p])

\* OneUp.max_allowed_value
max_allowed_value(g, p) ==
  Min2(Cardinality(g.horizontal_vision[p]), Cardinality(g.vertical_vision[p]))

\* other_visible_positions without the removal of the position itself
visible_positions_with_self(g, p) == g.vision[p]

\* OneUp.other_visible_positions (the keys)
other_visible_positions(g, p) == g.vision[p] \ {p}

\* OneUp.is_complete
is_complete(g, grid) ==
  \A p \in FreeSet(g):
     /\ grid[p] # 0
     /\ grid[p] <= max_allowed_value(g, p)
     /\ \A q \in g.vision[p]: q # p => grid[q] # grid[p]

(***************************************************************************)
(* The solver object.  A solver is a record                                *)
(*   grid            Grid.data, position -> value (0 = empty)              *)
(*   base, pvRef     OneUpSolver.possible_values.  The dictionary holds    *)
(*                   REFERENCES to Python sets: pvRef[p] = 0 when the      *)
(*                   entry of p is the set made by reset (its content is   *)
(*                   base[p]), and pvRef[p] = i when it is the set         *)
(*                   `values` owned by the SetPossibleValues action at     *)
(*                   index i of the log (its content is actions[i].values, *)
(*                   and in-place add/remove change that action's set)     *)
(*   hints           OneUpSolver.hints                                     *)
(*   state           OneUpSolver.state                                     *)
(*   actions, action_results, action_index, save_points                    *)
(*                   the fields of ActionQueue; an entry of action_results *)
(*                   is what the undo closure of the result captured       *)
(*   raised          the exception that ended the current call, or "none"  *)
(***************************************************************************)
SOLVING == "solving"

COMPLETE == "complete"

HALTED == "halted"

Action(kind, p, v, vals) ==
  [kind |-> kind, position |-> p, value |-> v, values |-> vals]

SetPosition(p, v) == Action("SetPosition", p, v, {})

SetPossibleValues(p, vals) == Action("SetPossibleValues", p, 0, vals)

PropagateValue(p) == Action("PropagateValue", p, 0, {})

AddPossibleValue(p, v) == Action("AddPossibleValue", p, v, {})

RemovePossibleValue(p, v) == Action("RemovePossibleValue", p, v, {})

AddHint(p, v) == Action("AddHint", p, v, {})

RemoveHint(p, v) == Action("RemoveHint", p, v, {})

\* what the closure `undo` of an ActionResult captured
Closure(kind, p, v, current, success, old, changed) ==
  [kind |-> kind, position |-> p, value |-> v, current |-> current,
   success |-> success, old_values |-> old, changed_positions |-> changed]

\* an ActionResult
ActionResult(s, succeeded, next, undo) ==
  [s |-> s, succeeded |-> succeeded, next_actions |-> next, undo |-> undo]

NoClosure == Closure("none", <<0, 0>>, 0, 0, FALSE, 0, {})

\* solver.possible_values[p], the content of the referenced set
Domain(s, p) ==
  IF s.pvRef[p] = 0 THEN s.base[p] ELSE s.actions[s.pvRef[p]].values

\* in-place change of the sets referenced by the positions of DOMAIN new:
\* the set of position p becomes new[p]
MutateDomains(s, new) ==
  [s EXCEPT
     !.base = [p \in DOMAIN s.base |->
                 IF p \in DOMAIN new /\ s.pvRef[p] = 0 THEN new[p]
                 ELSE s.base[p]],
     !.actions = [i \in DOMAIN s.actions |->
                    LET a == s.actions[i]
                    IN IF a.kind = "SetPossibleValues"
                          /\ a.position \in DOMAIN new
                          /\ s.pvRef[a.position] = i
                       THEN [a EXCEPT !.values = new[a.position]]
                       ELSE a]]

(***************************************************************************)
(* oneup/solver/actions.py: perform of each action.  `self` is the index   *)
(* of the log at which the action object is (redo) or will be (batch)      *)
(* recorded.                                                               *)
(***************************************************************************)
AddHintPerform(s, a) ==
  LET success == a.value \notin s.hints[a.position]
  IN ActionResult([s EXCEPT !.hints[a.position] = @ \cup {a.value}],
                  success, <<>>,
                  Closure("AddHint", a.position, a.value, 0, success, 0, {}))

\* set.remove raises KeyError when the value is absent
RemoveHintPerform(s, a) ==
  LET success == a.value \in s.hints[a.position]
  IN IF ~success
     THEN ActionResult([s EXCEPT !.raised = "KeyError"], FALSE, <<>>, NoClosure)
     ELSE ActionResult([s EXCEPT !.hints[a.position] = @ \ {a.value}],
                       success, <<>>,
                       Closure("RemoveHint", a.position, a.value, 0, success,
                               0, {}))

AddPossibleValuePerform(s, a) ==
  LET success == a.value \notin Domain(s, a.position)
  IN ActionResult(
       MutateDomains(s, [p \in {a.position} |-> Domain(s, p) \cup {a.value}]),
       success, <<>>,
       Closure("AddPossibleValue", a.position, a.value, 0, success, 0, {}))

RemovePossibleValuePerform(s, a) ==
  LET success == a.value \in Domain(s, a.position)
  IN ActionResult(
       IF success
       THEN MutateDomains(s, [p \in {a.position} |-> Domain(s, p) \ {a.value}])
       ELSE s,
       success, <<>>,
       Closure("RemovePossibleValue", a.position, a.value, 0, success, 0, {}))

\* the dictionary entry becomes the action's own set; the closure keeps a
\* reference to the set that was there
SetPossibleValuesPerform(s, a, self) ==
  ActionResult([s EXCEPT !.pvRef[a.position] = self], TRUE, <<>>,
               Closure("SetPossibleValues", a.position, 0, 0, TRUE,
                       s.pvRef[a.position], {}))

\* PropagateValue.perform with changed_positions taken to be every other
\* visible position instead of those that held the value
PropagateValuePerformAllVisible(g, s, a) ==
  LET value == s.grid[a.position]
      changed == other_visible_positions(g, a.position)
  IN IF value = 0 THEN ActionResult(s, FALSE, <<>>, NoClosure)
     ELSE ActionResult(
            MutateDomains(s, [q \in changed |-> Domain(s, q) \ {value}]),
            TRUE, <<>>,
            Closure("PropagateValue", a.position, value, 0, TRUE, 0, changed))

\* PropagateValue that rebuilds the candidates of the visible positions instead
\* of discarding one value from them
PropagateValuePerformRecomputes(g, s, a) ==
  LET value == s.grid[a.position]
      changed == other_visible_positions(g, a.position)
  IN IF value = 0 THEN ActionResult(s, FALSE, <<>>, NoClosure)
     ELSE ActionResult(
            MutateDomains(s, [q \in changed |->
                                (1..max_allowed_value(g, q)) \ {value}]),
            TRUE, <<>>,
            Closure("PropagateValue", a.position, value, 0, TRUE, 0, changed))

PropagateValuePerform(g, s, a) ==
  LET value == s.grid[a.position]
      changed == {q \in other_visible_positions(g, a.position):
                    value \in Domain(s, q)}
  IN IF value = 0 THEN ActionResult(s, FALSE, <<>>, NoClosure)
     ELSE ActionResult(
            MutateDomains(s, [q \in changed |-> Domain(s, q) \ {value}]),
            TRUE, <<>>,
            Closure("PropagateValue", a.position, value, 0, TRUE, 0, changed))

SetPositionPerform(s, a) ==
  LET current == s.grid[a.position]
  IN IF current = a.value THEN ActionResult(s, FALSE, <<>>, NoClosure)
     ELSE ActionResult(
            [s EXCEPT !.grid[a.position] = a.value], TRUE,
            <<SetPossibleValues(a.position, {a.value}),
              PropagateValue(a.position)>>,
            Closure("SetPosition", a.position, a.value, current, TRUE, 0, {}))

Perform(g, s, a, self) ==
  CASE a.kind = "AddHint" -> AddHintPerform(s, a)
    [] a.kind = "RemoveHint" -> RemoveHintPerform(s, a)
    [] a.kind = "AddPossibleValue" -> AddPossibleValuePerform(s, a)
    [] a.kind = "RemovePossibleValue" -> RemovePossibleValuePerform(s, a)
    [] a.kind = "SetPossibleValues" -> SetPossibleValuesPerform(s, a, self)
    [] a.kind = "PropagateValue" -> PropagateValuePerform(g, s, a)
    [] a.kind = "SetPosition" -> SetPositionPerform(s, a)

\* the closure `undo` of each perform; set.remove raises KeyError when the
\* value is absent
UndoClosure(s, u) ==
  CASE u.kind = "AddHint" ->
         IF ~u.success THEN s
         ELSE IF u.value \notin s.hints[u.position]
         THEN [s EXCEPT !.raised = "KeyError"]
         ELSE [s EXCEPT !.hints[u.position] = @ \ {u.value}]
    [] u.kind = "RemoveHint" ->
         IF u.success THEN [s EXCEPT !.hints[u.position] = @ \cup {u.value}]
         ELSE s
    [] u.kind = "AddPossibleValue" ->
         IF ~u.success THEN s
         ELSE IF u.value \notin Domain(s, u.position)
         THEN [s EXCEPT !.raised = "KeyError"]
         ELSE MutateDomains(s, [p \in {u.position} |->
                                  Domain(s, p) \ {u.value}])
    [] u.kind = "RemovePossibleValue" ->
         IF u.success
         THEN MutateDomains(s, [p \in {u.position} |->
                                  Domain(s, p) \cup {u.value}])
         ELSE s
    [] u.kind = "SetPossibleValues" ->
         [s EXCEPT !.pvRef[u.position] = u.old_values]
    [] u.kind = "PropagateValue" ->
         MutateDomains(s, [p \in u.changed_positions |->
                             Domain(s, p) \cup {u.value}])
    [] u.kind = "SetPosition" -> [s EXCEPT !.grid[u.position] = u.current]
    [] u.kind = "none" -> s

(***************************************************************************)
(* oneup/actions.py: ActionQueue                                           *)
(***************************************************************************)
Reverse(seq) == [i \in 1..Len(seq) |-> seq[Len(seq) + 1 - i]]

SeqRange(seq) == {seq[i]: i \in 1..Len(seq)}

\* ActionQueue.is_current
is_current(s) == s.action_index = Len(s.actions)

\* _is_at_savepoint that never finds the cursor among the save points
is_at_savepoint_never(s) == FALSE

\* ActionQueue._is_at_savepoint
is_at_savepoint(s) == s.action_index \in SeqRange(s.save_points)

\* ActionQueue._create_savepoint
create_savepoint(s) ==
  [s EXCEPT !.save_points = Append(@, Len(s.action_results))]

\* _drop_future that keeps every save point
drop_future_keeps_savepoints(s) ==
  [s EXCEPT !.actions = SubSeq(@, 1, s.action_index),
            !.action_results = SubSeq(@, 1, s.action_index)]

\* ActionQueue._drop_future
drop_future(s) ==
  [s EXCEPT !.actions = SubSeq(@, 1, s.action_index),
            !.action_results = SubSeq(@, 1, s.action_index),
            !.save_points = SelectSeq(@, LAMBDA x: x <= s.action_index)]

\* one call of action.perform in the loop of ActionQueue.perform_actions
Performed(action, result) ==
  [action |-> action, succeeded |-> result.succeeded]

\* the loop of perform_actions with `break` in place of `continue`: a failed
\* action ends the batch
RECURSIVE RunStackStopsAtFailure(_, _, _)
RunStackStopsAtFailure(g, s, action_stack) ==
  IF action_stack = <<>> THEN s
  ELSE LET action == action_stack[Len(action_stack)]
           popped == SubSeq(action_stack, 1, Len(action_stack) - 1)
           result == Perform(g, s, action, Len(s.actions) + 1)
           called == [result.s EXCEPT
                        !.performed = Append(@, Performed(action, result))]
       IN IF called.raised # "none" THEN called
          ELSE IF ~result.succeeded THEN called
          ELSE RunStackStopsAtFailure(g,
                 [called EXCEPT
                    !.actions = Append(@, action),
                    !.action_results = Append(@, result.undo),
                    !.action_index = @ + 1],
                 popped \o result.next_actions)

\* the while loop of ActionQueue.perform_actions; the top of the stack is
\* the end of the sequence.  s.performed records the perform calls of the
\* batch in order.
RECURSIVE RunStack(_, _, _)
RunStack(g, s, action_stack) ==
  IF action_stack = <<>> THEN s
  ELSE LET action == action_stack[Len(action_stack)]
           popped == SubSeq(action_stack, 1, Len(action_stack) - 1)
           result == Perform(g, s, action, Len(s.actions) + 1)
           called == [result.s EXCEPT
                        !.performed = Append(@, Performed(action, result))]
       IN IF called.raised # "none" THEN called
          ELSE IF ~result.succeeded THEN RunStack(g, called, popped)
          ELSE RunStack(g,
                 [called EXCEPT
                    !.actions = Append(@, action),
                    !.action_results = Append(@, result.undo),
                    !.action_index = @ + 1],
                 popped \o result.next_actions)

\* ActionQueue.perform_actions
perform_actions(g, s, actions) ==
  IF Len(actions) = 0 THEN s
  ELSE LET s1 == IF ~is_current(s) THEN drop_future(s) ELSE s
           s2 == IF ~is_at_savepoint(s1) THEN create_savepoint(s1) ELSE s1
       IN RunStack(g, [s2 EXCEPT !.batch = actions], Reverse(actions))

SetMax(S) == CHOOSE x \in S: \A y \in S: y <= x

SetMin(S) == CHOOSE x \in S: \A y \in S: x <= y

\* previous_savepoint taking the first save point below the cursor instead
\* of the last
previous_savepoint_first(s) ==
  LET below == {x \in SeqRange(s.save_points): x < s.action_index}
  IN IF below = {} THEN None ELSE Some(SetMin(below))

\* ActionQueue.previous_savepoint
previous_savepoint(s) ==
  LET below == {x \in SeqRange(s.save_points): x < s.action_index}
  IN IF below = {} THEN None ELSE Some(SetMax(below))

\* next_savepoint that never finds a save point, so that redo replays to
\* the end of the log
next_savepoint_none(s) == None

\* ActionQueue.next_savepoint
next_savepoint(s) ==
  LET above == {x \in SeqRange(s.save_points): x > s.action_index}
  IN IF above = {} THEN None ELSE Some(SetMin(above))

\* the undo loop of _move_to_index: the closures of the results between
\* target and the cursor, last first
RECURSIVE UndoLoop(_, _)
UndoLoop(s, target) ==
  IF s.action_index <= target THEN s
  ELSE LET undone == UndoClosure(s, s.action_results[s.action_index])
       IN IF undone.raised # "none" THEN undone
          ELSE UndoLoop([undone EXCEPT !.action_index = @ - 1], target)

\* the redo loop of _move_to_index: perform of each recorded action; the
\* result (its cascade and its closure) is dropped
RECURSIVE RedoLoop(_, _, _)
RedoLoop(g, s, target) ==
  IF s.action_index >= target THEN s
  ELSE LET i == s.action_index + 1
           performed == Perform(g, s, s.actions[i], i).s
       IN IF performed.raised # "none" THEN performed
          ELSE RedoLoop(g, [performed EXCEPT !.action_index = @ + 1], target)

\* ActionQueue._move_to_index
move_to_index(g, s, target_action_index) ==
  LET target == Min2(Len(s.actions),
                     IF target_action_index < 0 THEN 0
                     ELSE target_action_index)
  IN IF s.action_index = target THEN s
     ELSE IF target < s.action_index THEN UndoLoop(s, target)
     ELSE RedoLoop(g, s, target)

\* undo with max() of the save points below the cursor taken without a
\* default: it raises when there is none
undo_without_default(g, s) ==
  LET savepoint == previous_savepoint(s)
  IN IF savepoint = None THEN [s EXCEPT !.raised = "ValueError"]
     ELSE move_to_index(g, s, savepoint[1])

\* ActionQueue.undo
undo(g, s) ==
  LET savepoint == previous_savepoint(s)
  IN IF savepoint = None THEN s ELSE move_to_index(g, s, savepoint[1])

\* redo as fast_forward: to the end of the log, whatever the save points
redo_fast_forward(g, s) == move_to_index(g, s, Len(s.actions))

\* ActionQueue.redo; `next_savepoint() or len(actions)`
redo(g, s) ==
  LET next == next_savepoint(s)
      savepoint == IF next = None \/ next[1] = 0 THEN Len(s.actions)
                   ELSE next[1]
  IN IF savepoint = s.action_index THEN s ELSE move_to_index(g, s, savepoint)

(***************************************************************************)
(* oneup/solver/solver.py and oneup/solver/strategy.py                     *)
(***************************************************************************)
\* OneUpSolver.entropy
entropy(s, p) == Cardinality(Domain(s, p)) - 1

\* _non_fixed_positions enumerated from the last free position to the first
non_fixed_positions_reversed(g, s) ==
  LET fp == g.free_positions
  IN SelectSeq([i \in 1..Len(fp) |-> fp[Len(fp) + 1 - i]],
               LAMBDA p: s.grid[p] = 0)

\* OneUpSolver._non_fixed_positions: the unfilled free positions, in order
non_fixed_positions(g, s) ==
  SelectSeq(g.free_positions, LAMBDA p: s.grid[p] = 0)

\* find_easy_collapse without the assignment of HALTED on a negative entropy
find_easy_collapse_keeps_state(g, s) ==
  LET nf == non_fixed_positions(g, s)
  IN IF Len(nf) = 0 THEN [s |-> s, action |-> None]
     ELSE LET i == CHOOSE k \in 1..Len(nf):
                     \A j \in 1..Len(nf):
                        \/ entropy(s, nf[k]) < entropy(s, nf[j])
                        \/ entropy(s, nf[k]) = entropy(s, nf[j]) /\ k <= j
              position == nf[i]
          IN IF entropy(s, position) = 0
             THEN [s |-> s,
                   action |-> Some(SetPosition(position,
                                CHOOSE v \in Domain(s, position): TRUE))]
             ELSE [s |-> s, action |-> None]

\* find_easy_collapse: the least (entropy, index) of the heap; a negative
\* entropy sets the state and yields no action, a positive one no action
find_easy_collapse(g, s) ==
  LET nf == non_fixed_positions(g, s)
  IN IF Len(nf) = 0 THEN [s |-> s, action |-> None]
     ELSE LET i == CHOOSE k \in 1..Len(nf):
                     \A j \in 1..Len(nf):
                        \/ entropy(s, nf[k]) < entropy(s, nf[j])
                        \/ entropy(s, nf[k]) = entropy(s, nf[j]) /\ k <= j
              position == nf[i]
          IN IF entropy(s, position) < 0
             THEN [s |-> [s EXCEPT !.state = HALTED], action |-> None]
             ELSE IF entropy(s, position) = 0
             THEN [s |-> s,
                   action |-> Some(SetPosition(position,
                                CHOOSE v \in Domain(s, position): TRUE))]
             ELSE [s |-> s, action |-> None]

UnionOf(group, S) == UNION {group[p]: p \in S}

\* _is_group with `<=` between the number of positions and of values
is_group_at_least(group, included) ==
  /\ 0 < Cardinality(UnionOf(group, included))
  /\ Cardinality(included) <= Cardinality(UnionOf(group, included))

\* _is_group
is_group(group, included) ==
  /\ 0 < Cardinality(UnionOf(group, included))
  /\ Cardinality(UnionOf(group, included)) = Cardinality(included)

\* _detect_group.  remaining_positions.pop() takes the last position of a
\* list built by iterating a set: every remaining position may be the one
\* taken, so the operator yields the set of results the search can return
\* (None or Some(included)).
RECURSIVE detect_group(_, _, _, _)
detect_group(size, group, included, excluded) ==
  IF is_group(group, included) THEN {Some(included)}
  ELSE LET included_values == UnionOf(group, included)
           remaining_positions ==
             {p \in (DOMAIN group \ included) \ excluded:
                /\ Cardinality(group[p]) <= size
                /\ (Cardinality(included) = 0
                    \/ included_values \cap group[p] # {})}
       IN IF Cardinality(included_values) > size THEN {None}
          ELSE IF remaining_positions = {} THEN {None}
          ELSE UNION {
                 LET with_next ==
                       detect_group(size, group, included \cup {next_position},
                                    excluded)
                 IN (with_next \ {None}) \cup
                    (IF None \in with_next
                     THEN detect_group(size, group, included,
                                       excluded \cup {next_position})
                     ELSE {})
                 : next_position \in remaining_positions}

\* detect_groups
detect_groups(size, group) == detect_group(size, group, {}, {})

\* the RemovePossibleValue actions of one found group (default_solver_strategy,
\* the loop over non_round_positions and round_values)
RECURSIVE RemovalsOf(_, _, _)
RemovalsOf(s, positions, values) ==
  IF positions = <<>> THEN <<>>
  ELSE LET here == SelectSeq(values,
                             LAMBDA v: v \in Domain(s, positions[1]))
       IN [i \in 1..Len(here) |-> RemovePossibleValue(positions[1], here[i])]
          \o RemovalsOf(s, Tail(positions), values)

\* the actions of one found group without `vision_group - group_positions`:
\* the positions of the group itself are targets as well
round_actions_whole_group(g, s, vision_group, group_positions) ==
  LET round_values == UNION {Domain(s, p): p \in group_positions}
  IN RemovalsOf(s, SortedPositions(g.size, vision_group),
                SortedValues(round_values))

round_actions(g, s, vision_group, group_positions) ==
  LET round_values == UNION {Domain(s, p): p \in group_positions}
      non_round_positions == vision_group \ group_positions
  IN RemovalsOf(s, SortedPositions(g.size, non_round_positions),
                SortedValues(round_values))

\* the hidden-subset part of default_solver_strategy: the loop over the
\* vision groups from group gi and round size k on.  Yields the set of
\* possible results: Some(actions) when a fruitful group is returned, None
\* when the loops end.
RECURSIVE group_rounds(_, _, _, _)
group_rounds(g, s, gi, round_size) ==
  LET groups == g.all_vision_groups
  IN IF gi > Len(groups) THEN {None}
     ELSE LET vision_group == groups[gi]
              keys == {p \in vision_group: Cardinality(Domain(s, p)) > 1}
              group_data == [p \in keys |-> Domain(s, p)]
          IN IF round_size >= Cardinality(keys)
             THEN group_rounds(g, s, gi + 1, 2)
             ELSE UNION {
                    IF found = None
                    THEN group_rounds(g, s, gi, round_size + 1)
                    ELSE LET result ==
                               round_actions(g, s, vision_group, found[1])
                         IN IF Len(result) = 0
                            THEN group_rounds(g, s, gi, round_size + 1)
                            ELSE {Some(result)}
                    : found \in detect_groups(round_size, group_data)}

\* detect_chains: the nodes and their neighbours
chain_nodes(g, s) == {p \in FreeSet(g): Cardinality(Domain(s, p)) = 2}

neighbours(g, s, node) ==
  {p \in g.vision[node] \cap chain_nodes(g, s):
     p # node /\ Domain(s, node) \cap Domain(s, p) # {}}

\* dfs: d is [stack, ids, lowest, timer]; ids[p] = -1 while p is not
\* inserted.  Sets are traversed row-major; the components do not depend on
\* the order.
RECURSIVE dfs(_, _, _, _, _)
RECURSIVE dfs_neighbours(_, _, _, _, _, _)
RECURSIVE dfs_pop(_, _)
dfs(g, s, node, parent, d) ==
  IF d.ids[node] # -1 THEN d
  ELSE LET entered == [stack |-> Append(d.stack, node),
                       ids |-> [d.ids EXCEPT ![node] = d.timer],
                       lowest |-> [d.lowest EXCEPT ![node] = d.timer],
                       timer |-> d.timer + 1]
           looped == dfs_neighbours(g, s, node, parent,
                       SortedPositions(g.size, neighbours(g, s, node)),
                       entered)
       IN IF looped.ids[node] # looped.lowest[node] THEN looped
          ELSE dfs_pop(node, looped)

dfs_neighbours(g, s, node, parent, nbs, d) ==
  IF nbs = <<>> THEN d
  ELSE LET neighbour_ == nbs[1]
       IN IF parent # None /\ neighbour_ = parent[1]
          THEN dfs_neighbours(g, s, node, parent, Tail(nbs), d)
          ELSE LET visited == IF d.ids[neighbour_] = -1
                              THEN dfs(g, s, neighbour_, Some(node), d)
                              ELSE d
                   lowered ==
                     IF neighbour_ \in SeqRange(visited.stack)
                     THEN [visited EXCEPT
                             !.lowest[node] =
                               Min2(@, visited.lowest[neighbour_])]
                     ELSE visited
               IN dfs_neighbours(g, s, node, parent, Tail(nbs), lowered)

dfs_pop(node, d) ==
  IF d.stack = <<>> THEN d
  ELSE LET popped == d.stack[Len(d.stack)]
           next == [d EXCEPT !.stack = SubSeq(@, 1, Len(@) - 1),
                             !.lowest[popped] = d.ids[node]]
       IN IF popped = node THEN next ELSE dfs_pop(node, next)

\* the loop `for start in nodes` of detect_chains; every search starts with
\* an empty stack
RECURSIVE dfs_all(_, _, _, _)
dfs_all(g, s, starts, d) ==
  IF starts = <<>> THEN d
  ELSE dfs_all(g, s, Tail(starts),
               dfs(g, s, starts[1], None, [d EXCEPT !.stack = <<>>]))

lowest_links(g, s) ==
  dfs_all(g, s, SortedPositions(g.size, chain_nodes(g, s)),
          [stack |-> <<>>,
           ids |-> [p \in PositionSet(g.size) |-> -1],
           lowest |-> [p \in PositionSet(g.size) |-> -1],
           timer |-> 0]).lowest

\* _is_chain
is_chain(g, chain) ==
  /\ Cardinality(chain) >= 2
  /\ \A position \in chain: g.vision[position] \cap (chain \ {position}) # {}

\* detect_chains, for a non-empty set of nodes (max() of an empty sequence
\* raises ValueError): the candidates by low-link index that are chains
detect_chains(g, s) ==
  LET lowest == lowest_links(g, s)
      nodes == chain_nodes(g, s)
      component_count == SetMax({lowest[p]: p \in nodes})
      candidates == [low \in 0..component_count |->
                       {p \in nodes: lowest[p] = low}]
      kept == SelectSeq([i \in 1..(component_count + 1) |-> i - 1],
                        LAMBDA low: is_chain(g, candidates[low]))
  IN [i \in 1..Len(kept) |-> candidates[kept[i]]]

\* the values that occur an odd number of times over the chain
mismatched_values(s, chain) ==
  {v \in UNION {Domain(s, p): p \in chain}:
     Cardinality({p \in chain: v \in Domain(s, p)}) % 2 = 1}

\* complete_chain without the comparison with the mismatched values: any
\* member is removed
complete_chain_any_member(s, chain) ==
  IF chain = {} THEN {None} ELSE {Some(chain \ {p}): p \in chain}

\* complete_chain: the first position of the set iteration whose domain is
\* the mismatch set is removed; every such position is a possible outcome
complete_chain(s, chain) ==
  LET matching == {p \in chain: Domain(s, p) = mismatched_values(s, chain)}
  IN IF matching = {} THEN {None}
     ELSE {Some(chain \ {p}): p \in matching}

\* create_chain_actions: the loops over position, partner, value and
\* excluded position
RECURSIVE Flatten(_)
Flatten(seqs) ==
  IF seqs = <<>> THEN <<>> ELSE seqs[1] \o Flatten(Tail(seqs))

\* the RemovePossibleValue actions of one shared value, over the excluded
\* positions that hold it
value_actions(s, excluded, value) ==
  Flatten([i \in 1..Len(excluded) |->
             IF value \in Domain(s, excluded[i])
             THEN <<RemovePossibleValue(excluded[i], value)>>
             ELSE <<>>])

pair_actions(g, s, position, partner) ==
  IF position = partner THEN <<>>
  ELSE IF alignment(position, partner) = "none" THEN <<>>
  ELSE IF partner \notin g.vision[position] THEN <<>>
  ELSE LET vision_group ==
             IF alignment(position, partner) = "horizontal"
             THEN g.horizontal_vision[position]
             ELSE g.vertical_vision[position]
           excluded_group == vision_group \ {position, partner}
           included_shared_values ==
             SortedValues(Domain(s, position) \cap Domain(s, partner))
       IN Flatten([i \in 1..Len(included_shared_values) |->
                     value_actions(s, SortedPositions(g.size, excluded_group),
                                   included_shared_values[i])])

\* the actions of one position of the chain, over its partners
position_actions(g, s, members, position) ==
  Flatten([j \in 1..Len(members) |->
             pair_actions(g, s, position, members[j])])

create_chain_actions(g, s, chain) ==
  LET members == SortedPositions(g.size, chain)
  IN Flatten([i \in 1..Len(members) |->
                position_actions(g, s, members, members[i])])

\* the chain part of default_solver_strategy: the possible action lists
RECURSIVE chain_results(_, _, _, _)
chain_results(g, s, chains, i) ==
  IF i > Len(chains) THEN {<<>>}
  ELSE {(IF completed = None THEN <<>>
         ELSE create_chain_actions(g, s, completed[1])) \o rest
        : completed \in complete_chain(s, chains[i]),
          rest \in chain_results(g, s, chains, i + 1)}

\* default_solver_strategy: the set of possible outcomes, each the solver
\* (find_easy_collapse may have set its state), the actions returned and the
\* exception raised
StrategyOutcome(s, actions, raised) ==
  [s |-> [s EXCEPT !.raised = raised], actions |-> actions]

default_solver_strategy(g, s) ==
  LET collapse == find_easy_collapse(g, s)
      s1 == collapse.s
  IN IF collapse.action # None
     THEN {StrategyOutcome(s1, <<collapse.action[1]>>, "none")}
     ELSE UNION {
            IF rounds # None THEN {StrategyOutcome(s1, rounds[1], "none")}
            ELSE IF chain_nodes(g, s1) = {}
            THEN {StrategyOutcome(s1, <<>>, "ValueError")}
            ELSE {StrategyOutcome(s1, result, "none")
                  : result \in chain_results(g, s1, detect_chains(g, s1), 1)}
            : rounds \in group_rounds(g, s1, 1, 2)}

\* OneUpSolver.step_solver: the set of solvers the call can end in
step_solver(g, s) ==
  {IF o.s.raised # "none" THEN o.s
   ELSE IF o.actions = <<>> THEN [o.s EXCEPT !.state = HALTED]
   ELSE LET performed == perform_actions(g, o.s, o.actions)
        IN IF is_complete(g, performed.grid)
           THEN [performed EXCEPT !.state = COMPLETE]
           ELSE performed
   : o \in default_solver_strategy(g, s)}

\* OneUpSolver.initialize_possible_values
initialize_possible_values(g, grid) ==
  [p \in PositionSet(g.size) |->
     IF p \in g.blocked_positions THEN {}
     ELSE (IF grid[p] # 0 THEN {grid[p]} ELSE 1..max_allowed_value(g, p))
          \ {grid[q]: q \in other_visible_positions(g, p)}]

\* OneUpSolver.reset
reset(g, grid) ==
  [grid |-> grid,
   base |-> initialize_possible_values(g, grid),
   pvRef |-> [p \in PositionSet(g.size) |-> 0],
   hints |-> [p \in PositionSet(g.size) |-> {}],
   state |-> SOLVING,
   actions |-> <<>>,
   action_results |-> <<>>,
   action_index |-> 0,
   save_points |-> <<>>,
   raised |-> "none",
   batch |-> <<>>,
   performed |-> <<>>]

(***************************************************************************)
(* The puzzles the solver is built on (OneUp(grid, walls, blocked)).       *)
(***************************************************************************)
Puzzle(size, clues, walls, blocked) ==
  [size |-> size,
   values |-> [p \in PositionSet(size) |->
                 IF p \in DOMAIN clues THEN clues[p] ELSE 0],
   walls |-> walls, blocked |-> blocked]

NoClues == [p \in {} |-> 0]

\* a single cell
PuzzleCell == Puzzle(1, NoClues, {}, {})

\* 2x2, no walls, the clue (0,0) = 1
PuzzleClue == Puzzle(2, [p \in {<<0, 0>>} |-> 1], {}, {})

\* 3x3, (0,0) and (1,0) blocked, the clue (2,2) = 1: (2,0) has no candidate
PuzzleBlocked ==
  Puzzle(3, [p \in {<<2, 2>>} |-> 1], {}, {<<0, 0>>, <<1, 0>>})

Puzzles == {PuzzleCell, PuzzleClue, PuzzleBlocked}

(***************************************************************************)
(* State                                                                   *)
(***************************************************************************)
VARIABLES
  game,            \* the OneUp object (size, walls, blocked, cached vision)
  grid,            \* game.grid
  base, pvRef,     \* solver.possible_values
  hints,           \* solver.hints
  state,           \* solver.state
  actions,         \* action_queue.actions
  action_results,  \* action_queue.action_results
  action_index,    \* action_queue.action_index
  save_points,     \* action_queue.save_points
  raised,          \* the exception the last call ended with, or "none"
  batch,           \* the actions handed to perform_actions by the last call
  performed,       \* the perform calls of that batch and what they returned
  lastOp,          \* the name of the last call
  prev,            \* grid, domains, hints and cursor before the last call
  edits,           \* number of SetPosition batches so far
  hintCalls,       \* number of AddHint and RemoveHint batches so far
  resets,          \* number of reset() calls so far
  out              \* what the last direct call of a function of
                   \* solver/actions.py or solver/strategy.py returned

vars == <<game, grid, base, pvRef, hints, state, actions, action_results,
          action_index, save_points, raised, batch, performed, lastOp, prev,
          edits, hintCalls, resets, out>>

\* the solver object of the current state, at the start of a call
Solver ==
  [grid |-> grid, base |-> base, pvRef |-> pvRef, hints |-> hints,
   state |-> state, actions |-> actions, action_results |-> action_results,
   action_index |-> action_index, save_points |-> save_points,
   raised |-> "none", batch |-> <<>>, performed |-> <<>>]

\* the solver object after the step
SolverNext ==
  [grid |-> grid', base |-> base', pvRef |-> pvRef', hints |-> hints',
   state |-> state', actions |-> actions',
   action_results |-> action_results', action_index |-> action_index',
   save_points |-> save_points', raised |-> raised', batch |-> batch',
   performed |-> performed']

Becomes(s) ==
  /\ grid' = s.grid
  /\ base' = s.base
  /\ pvRef' = s.pvRef
  /\ hints' = s.hints
  /\ state' = s.state
  /\ actions' = s.actions
  /\ action_results' = s.action_results
  /\ action_index' = s.action_index
  /\ save_points' = s.save_points
  /\ raised' = s.raised
  /\ batch' = s.batch
  /\ performed' = s.performed

\* the candidate domains of a solver, as values
Domains(s) == [p \in DOMAIN s.base |-> Domain(s, p)]

\* what a caller can read of a solver: grid, domains, hints, cursor and the
\* length of the log
View(s) ==
  [grid |-> s.grid, possible_values |-> Domains(s), hints |-> s.hints,
   action_index |-> s.action_index, log_length |-> Len(s.actions)]

Init ==
  \E pz \in Puzzles:
    /\ game = MakeGame(pz.size, pz.values, pz.walls, pz.blocked)
    /\ LET s == reset(MakeGame(pz.size, pz.values, pz.walls, pz.blocked),
                       pz.values)
       IN /\ grid = s.grid
          /\ base = s.base
          /\ pvRef = s.pvRef
          /\ hints = s.hints
          /\ state = s.state
          /\ actions = s.actions
          /\ action_results = s.action_results
          /\ action_index = s.action_index
          /\ save_points = s.save_points
          /\ raised = s.raised
          /\ batch = s.batch
          /\ performed = s.performed
          /\ prev = View(s)
    /\ lastOp = "init"
    /\ edits = 0
    /\ hintCalls = 0
    /\ resets = 0
    /\ out = None

(***************************************************************************)
(* Actions: the calls of the control surface                               *)
(***************************************************************************)
\* solver.step_solver()
Step ==
  \E s \in step_solver(game, Solver):
    /\ action_index <= MaxLog \/ s.actions = actions
    /\ Becomes(s)
    /\ lastOp' = "step"
    /\ prev' = View(Solver)
    /\ UNCHANGED <<game, edits, hintCalls, resets, out>>

\* the positions the user edits: the free cells of the bottom row
EditPositions == {p \in FreeSet(game): p[1] = game.size - 1}

\* solver.perform_action(SetPosition(p, v))
PerformSetPosition ==
  \E p \in EditPositions, v \in 0..MaxVal:
    /\ edits < MaxEdits
    /\ edits + hintCalls + resets < MaxCalls
    /\ action_index <= MaxLog
    /\ Becomes(perform_actions(game, Solver, <<SetPosition(p, v)>>))
    /\ lastOp' = "SetPosition"
    /\ prev' = View(Solver)
    /\ edits' = edits + 1
    /\ UNCHANGED <<game, hintCalls, resets, out>>

\* the positions that are hinted: the top-left cell, where it is free and
\* holds no clue (OneUpApp.hint_position refuses the fixed positions)
HintPositions == ({<<0, 0>>} \cap FreeSet(game)) \ game.fixed_positions

\* the values that are hinted
HintValues == {1}

\* solver.perform_action(AddHint(p, v))
PerformAddHint ==
  \E p \in HintPositions, v \in HintValues:
    /\ hintCalls < MaxHintCalls
    /\ edits + hintCalls + resets < MaxCalls
    /\ action_index <= MaxLog
    /\ Becomes(perform_actions(game, Solver, <<AddHint(p, v)>>))
    /\ lastOp' = "AddHint"
    /\ prev' = View(Solver)
    /\ hintCalls' = hintCalls + 1
    /\ UNCHANGED <<game, edits, resets, out>>

\* solver.perform_action(RemoveHint(p, v))
PerformRemoveHint ==
  \E p \in HintPositions, v \in HintValues:
    /\ hintCalls < MaxHintCalls
    /\ edits + hintCalls + resets < MaxCalls
    /\ action_index <= MaxLog
    /\ Becomes(perform_actions(game, Solver, <<RemoveHint(p, v)>>))
    /\ lastOp' = "RemoveHint"
    /\ prev' = View(Solver)
    /\ hintCalls' = hintCalls + 1
    /\ UNCHANGED <<game, edits, resets, out>>

\* solver.undo()
Undo ==
  /\ Becomes(undo(game, Solver))
  /\ lastOp' = "undo"
  /\ prev' = View(Solver)
  /\ UNCHANGED <<game, edits, hintCalls, resets, out>>

\* solver.redo()
Redo ==
  /\ Becomes(redo(game, Solver))
  /\ lastOp' = "redo"
  /\ prev' = View(Solver)
  /\ UNCHANGED <<game, edits, hintCalls, resets, out>>

\* solver.reset(): the domains are rebuilt from the current grid
Reset ==
  /\ resets < MaxResets
  /\ edits + hintCalls + resets < MaxCalls
  /\ Becomes(reset(game, grid))
  /\ lastOp' = "reset"
  /\ prev' = View(Solver)
  /\ resets' = resets + 1
  /\ UNCHANGED <<game, edits, hintCalls, out>>

Next ==
  \/ Step
  \/ PerformSetPosition
  \/ PerformAddHint
  \/ PerformRemoveHint
  \/ Undo
  \/ Redo
  \/ Reset

Spec == Init /\ [][Next]_vars

(***************************************************************************)
(* PropagateValue.perform applied to drawn solvers: on a row of three      *)
(* cells with a wall before the last one, the middle cell filled and the   *)
(* domains any sets of values of 1..MaxVal; on the open 2x2 puzzle, no     *)
(* cell or one cell filled and the domains any sets of the values the      *)
(* puzzle allows; and the fresh solver of the 4x4 wall-free puzzle with    *)
(* the clue (0,0) = 1.                                                     *)
(***************************************************************************)
\* 3x3 with the rows 1 and 2 blocked: the row (0,0), (0,1), (0,2)
PuzzleRow == Puzzle(3, NoClues, {}, {p \in PositionSet(3): p[1] >= 1})

\* the same row with a wall between (0,1) and (0,2)
PuzzleWalled ==
  Puzzle(3, NoClues, {Wall(<<0, 1>>, <<0, 2>>)},
         {p \in PositionSet(3): p[1] >= 1})

\* 2x2, no walls, no clue
PuzzleOpen == Puzzle(2, NoClues, {}, {})

\* 4x4, no walls, the clue (0,0) = 1
PuzzleFour == Puzzle(4, [p \in {<<0, 0>>} |-> 1], {}, {})

GameOf(pz) == MakeGame(pz.size, pz.values, pz.walls, pz.blocked)

\* the grid of game g that is empty
EmptyGrid(g) == [p \in PositionSet(g.size) |-> 0]

\* the grids of game g with one position of `positions` filled with one of
\* 1..n
OneFilled(g, positions, n) ==
  {[p \in PositionSet(g.size) |-> IF p = q THEN v ELSE 0]
   : q \in positions, v \in 1..n}

\* the domains a caller can have made with AddPossibleValue and
\* RemovePossibleValue: any set of values of 1..n at each free position
DrawnDomains(g, n) == [FreeSet(g) -> SUBSET (1..n)]

\* a solver after reset() on `cells` whose possible_values are `domains`
DrawnSolver(g, cells, domains) ==
  [reset(g, cells) EXCEPT
     !.base = [p \in PositionSet(g.size) |->
                 IF p \in FreeSet(g) THEN domains[p] ELSE {}]]

\* the variables at the start of a behaviour on game g and solver s
StartsWith(g, s) ==
  /\ game = g
  /\ grid = s.grid
  /\ base = s.base
  /\ pvRef = s.pvRef
  /\ hints = s.hints
  /\ state = s.state
  /\ actions = s.actions
  /\ action_results = s.action_results
  /\ action_index = s.action_index
  /\ save_points = s.save_points
  /\ raised = s.raised
  /\ batch = s.batch
  /\ performed = s.performed
  /\ prev = View(s)
  /\ lastOp = "init"
  /\ edits = 0
  /\ hintCalls = 0
  /\ resets = 0
  /\ out = None

PropagateInit ==
  \/ LET g == GameOf(PuzzleWalled)
     IN \E cells \in OneFilled(g, {<<0, 1>>}, MaxVal),
           domains \in DrawnDomains(g, MaxVal):
          StartsWith(g, DrawnSolver(g, cells, domains))
  \/ LET g == GameOf(PuzzleOpen)
     IN \E cells \in {EmptyGrid(g)} \cup OneFilled(g, FreeSet(g), g.size),
           domains \in DrawnDomains(g, g.size):
          StartsWith(g, DrawnSolver(g, cells, domains))
  \/ LET g == GameOf(PuzzleFour)
     IN StartsWith(g, reset(g, PuzzleFour.values))

\* PropagateValue(p).perform(solver)
ApplyPropagateValue ==
  \E p \in FreeSet(game):
    LET result == PropagateValuePerform(game, Solver, PropagateValue(p))
    IN /\ Becomes(result.s)
       /\ lastOp' = "PropagateValue"
       /\ prev' = View(Solver)
       /\ out' = [position |-> p, succeeded |-> result.succeeded,
                  undo |-> result.undo]
       /\ UNCHANGED <<game, edits, hintCalls, resets>>

PropagateNext == ApplyPropagateValue

PropagateSpec == PropagateInit /\ [][PropagateNext]_vars

(***************************************************************************)
(* detect_groups and the hidden-subset loops of default_solver_strategy    *)
(* applied to drawn solvers: the row of three cells, nothing filled, the   *)
(* domains any sets of values of 1..MaxVal.                                *)
(***************************************************************************)
GroupInit ==
  LET g == GameOf(PuzzleRow)
  IN \E domains \in DrawnDomains(g, MaxVal):
       StartsWith(g, DrawnSolver(g, EmptyGrid(g), domains))

\* group_data of default_solver_strategy: the domains of the positions of a
\* vision group that have more than one candidate
group_data(s, vision_group) ==
  [p \in {q \in vision_group: Cardinality(Domain(s, q)) > 1} |-> Domain(s, p)]

\* detect_groups(size, group_data) for a vision group of the game
ApplyDetectGroups ==
  \E i \in 1..Len(game.all_vision_groups),
     size \in 1..Cardinality(FreeSet(game)):
    LET group == group_data(Solver, game.all_vision_groups[i])
    IN \E found \in detect_groups(size, group):
         /\ Becomes(Solver)
         /\ lastOp' = "detect_groups"
         /\ prev' = View(Solver)
         /\ out' = [size |-> size, group |-> group, found |-> found]
         /\ UNCHANGED <<game, edits, hintCalls, resets>>

\* the hidden-subset loops of default_solver_strategy: the actions returned,
\* or None when the loops end
ApplyGroupRounds ==
  \E rounds \in group_rounds(game, Solver, 1, 2):
    /\ Becomes(Solver)
    /\ lastOp' = "group_rounds"
    /\ prev' = View(Solver)
    /\ out' = rounds
    /\ UNCHANGED <<game, edits, hintCalls, resets>>

GroupNext ==
  \/ ApplyDetectGroups
  \/ ApplyGroupRounds

GroupSpec == GroupInit /\ [][GroupNext]_vars

(***************************************************************************)
(* complete_chain and the chain part of default_solver_strategy applied to *)
(* drawn solvers: the row of three cells, nothing filled, the domains any  *)
(* sets of values of 1..MaxVal.                                            *)
(***************************************************************************)
ChainInit ==
  LET g == GameOf(PuzzleRow)
  IN \E domains \in DrawnDomains(g, MaxVal):
       StartsWith(g, DrawnSolver(g, EmptyGrid(g), domains))

\* complete_chain(chain, solver.possible_values) for a set of free positions
ApplyCompleteChain ==
  \E chain \in SUBSET FreeSet(game):
    \E completed \in complete_chain(Solver, chain):
      /\ Becomes(Solver)
      /\ lastOp' = "complete_chain"
      /\ prev' = View(Solver)
      /\ out' = [chain |-> chain, completed |-> completed]
      /\ UNCHANGED <<game, edits, hintCalls, resets>>

\* the chain part of default_solver_strategy: detect_chains (max() raises
\* ValueError when no position has two candidates), then the actions of the
\* chains that complete_chain completes
ApplyChainActions ==
  /\ IF chain_nodes(game, Solver) = {}
     THEN /\ Becomes([Solver EXCEPT !.raised = "ValueError"])
          /\ out' = None
     ELSE LET chains == detect_chains(game, Solver)
          IN \E result \in chain_results(game, Solver, chains, 1):
               /\ Becomes(Solver)
               /\ out' = [chains |-> chains, actions |-> result]
  /\ lastOp' = "chain_actions"
  /\ prev' = View(Solver)
  /\ UNCHANGED <<game, edits, hintCalls, resets>>

ChainNext ==
  \/ ApplyCompleteChain
  \/ ApplyChainActions

ChainSpec == ChainInit /\ [][ChainNext]_vars

(***************************************************************************)
(* max_allowed_value and the vision dictionaries of drawn games: every     *)
(* grid size of GridSizes, with at most MaxObstacles blocked cells and     *)
(* walls together.                                                         *)
(***************************************************************************)
GridSizes == {1, 2, 3}

\* the walls a grid has room for (Wall.from_positions of two neighbours)
AllWalls(size) ==
  {Wall(p, neighbour(p, d)):
     p \in {q \in PositionSet(size): q[1] < size - 1}, d \in {DOWN}}
    \cup {Wall(p, neighbour(p, d)):
            p \in {q \in PositionSet(size): q[2] < size - 1}, d \in {RIGHT}}

GameInit ==
  \E size \in GridSizes:
    \E blocked \in {b \in SUBSET PositionSet(size):
                      Cardinality(b) <= MaxObstacles}:
      \E walls \in {w \in SUBSET AllWalls(size):
                      Cardinality(w) + Cardinality(blocked) <= MaxObstacles}:
        LET g == MakeGame(size, [p \in PositionSet(size) |-> 0], walls,
                          blocked)
        IN StartsWith(g, reset(g, EmptyGrid(g)))

\* game.max_allowed_value(p)
ApplyMaxAllowedValue ==
  \E p \in FreeSet(game):
    /\ Becomes(Solver)
    /\ lastOp' = "max_allowed_value"
    /\ prev' = View(Solver)
    /\ out' = [position |-> p, max_allowed |-> max_allowed_value(game, p)]
    /\ UNCHANGED <<game, edits, hintCalls, resets>>

\* game.horizontal_vision[p], game.vertical_vision[p] and game.vision[p]
ApplyVision ==
  \E p \in FreeSet(game):
    /\ Becomes(Solver)
    /\ lastOp' = "vision"
    /\ prev' = View(Solver)
    /\ out' = [position |-> p,
               horizontal |-> game.horizontal_vision[p],
               vertical |-> game.vertical_vision[p],
               vision |-> game.vision[p]]
    /\ UNCHANGED <<game, edits, hintCalls, resets>>

GameNext ==
  \/ ApplyMaxAllowedValue
  \/ ApplyVision

GameSpec == GameInit /\ [][GameNext]_vars

(***************************************************************************)
(* The calls of detect_groups that the hidden-subset loops of              *)
(* default_solver_strategy make, on drawn solvers: a row of four cells,    *)
(* nothing filled, every domain a pair of the values 1..4.                 *)
(***************************************************************************)
\* 4x4 with the rows 1 to 3 blocked: the row (0,0) .. (0,3)
PuzzleRowFour == Puzzle(4, NoClues, {}, {p \in PositionSet(4): p[1] >= 1})

\* the hidden-subset loops of default_solver_strategy, as the calls of
\* detect_groups they make: the round size, the group data and the result of
\* each, in order, until a call's group yields actions or the loops end
RECURSIVE group_round_calls(_, _, _, _)
group_round_calls(g, s, gi, round_size) ==
  LET groups == g.all_vision_groups
  IN IF gi > Len(groups) THEN {<<>>}
     ELSE LET vision_group == groups[gi]
              keys == {p \in vision_group: Cardinality(Domain(s, p)) > 1}
              data == [p \in keys |-> Domain(s, p)]
          IN IF round_size >= Cardinality(keys)
             THEN group_round_calls(g, s, gi + 1, 2)
             ELSE UNION {
                    LET call == <<[size |-> round_size, group |-> data,
                                   found |-> found]>>
                    IN IF found # None
                          /\ Len(round_actions(g, s, vision_group,
                                               found[1])) # 0
                       THEN {call}
                       ELSE {call \o rest:
                               rest \in group_round_calls(g, s, gi,
                                                          round_size + 1)}
                    : found \in detect_groups(round_size, data)}

RoundInit ==
  \E g \in {GameOf(PuzzleRowFour)}:
    \E domains \in [FreeSet(g) -> {d \in SUBSET (1..g.size):
                                     Cardinality(d) = 2}]:
      StartsWith(g, DrawnSolver(g, EmptyGrid(g), domains))

\* the hidden-subset loops of default_solver_strategy
ApplyGroupRoundCalls ==
  \E calls \in group_round_calls(game, Solver, 1, 2):
    /\ Becomes(Solver)
    /\ lastOp' = "group_round_calls"
    /\ prev' = View(Solver)
    /\ out' = calls
    /\ UNCHANGED <<game, edits, hintCalls, resets>>

RoundNext == ApplyGroupRoundCalls

RoundSpec == RoundInit /\ [][RoundNext]_vars

(***************************************************************************)
(* The solve loop `while state == SOLVING: step_solver()`, entered after   *)
(* any calls of the control surface.  Once entered, the loop alone runs;   *)
(* an exception of step_solver leaves it.                                  *)
(***************************************************************************)
\* one iteration of the loop
SolveStep ==
  /\ state = SOLVING
  /\ lastOp = "solve" => raised = "none"
  /\ \E s \in step_solver(game, Solver):
       /\ action_index <= MaxLog \/ s.actions = actions
       /\ Becomes(s)
  /\ lastOp' = "solve"
  /\ prev' = View(Solver)
  /\ UNCHANGED <<game, edits, hintCalls, resets, out>>

SolveNext ==
  \/ lastOp # "solve" /\ Next
  \/ SolveStep

\* the loop goes on while its condition holds
SolveSpec == Init /\ [][SolveNext]_vars /\ WF_vars(SolveStep)

(***************************************************************************)
(* Properties                                                              *)
(***************************************************************************)
\* the calls of the control surface other than reset
NonResetOps == {"step", "SetPosition", "AddHint", "RemoveHint", "undo", "redo"}

\* an unfilled free position of the current state has no candidate
HasEmptyDomain ==
  \E p \in FreeSet(game): grid[p] = 0 /\ Domain(Solver, p) = {}

\* an unfilled free position had no candidate before the last call
HadEmptyDomain ==
  \E p \in FreeSet(game): prev.grid[p] = 0 /\ prev.possible_values[p] = {}

\* C1: when a perform_action(SetPosition(p, v)) batch has succeeded and undo()
\* is the next call, the grid and every candidate domain are afterwards what
\* they were before the SetPosition.
C1_SetPositionUndoRoundTrip ==
  [][(/\ lastOp = "SetPosition"
      /\ Len(performed) > 0
      /\ performed[1].succeeded
      /\ lastOp' = "undo")
     => (/\ grid' = prev.grid
         /\ Domains(SolverNext) = prev.possible_values)]_vars

\* C1, reached: undo() has taken back a SetPosition batch of the user that is
\* the end of the log, and grid and domains changed by it
C1_Witness ==
  /\ lastOp = "undo"
  /\ edits > 0
  /\ prev.action_index = Len(actions)
  /\ action_index < Len(actions)
  /\ actions[action_index + 1].kind = "SetPosition"
  /\ actions[action_index + 1].position \in EditPositions
  /\ prev.grid[actions[action_index + 1].position]
       = actions[action_index + 1].value
  /\ grid # prev.grid
  /\ Domains(Solver) # prev.possible_values

\* C2: when undo() has moved the cursor back and redo() is the next call,
\* grid, candidate domains, hints and cursor are afterwards what they were
\* before the undo.
C2_UndoRedoRoundTrip ==
  [][(/\ lastOp = "undo"
      /\ action_index < prev.action_index
      /\ lastOp' = "redo")
     => View(SolverNext) = prev]_vars

\* C2, reached: redo() has replayed a batch that changed grid and domains
C2_Witness ==
  /\ lastOp = "redo"
  /\ action_index > prev.action_index
  /\ grid # prev.grid
  /\ Domains(Solver) # prev.possible_values

\* C3: a step() taken while an unfilled free position has an empty candidate
\* domain ends with the state HALTED.
C3_EmptyDomainHalts ==
  (lastOp = "step" /\ HadEmptyDomain) => state = HALTED

\* C3, reached: such a step() has been taken
C3_Witness ==
  /\ lastOp = "step"
  /\ HadEmptyDomain
  /\ state = HALTED

\* C4: the candidate domain of every free position is a subset of
\* 1..max_allowed_value(position), whatever calls were made.
C4_DomainsWithinRange ==
  \A p \in FreeSet(game):
    Domain(Solver, p) \subseteq 1..max_allowed_value(game, p)

\* no strategy yields an action for the current solver
NoStrategyActs ==
  \A o \in default_solver_strategy(game, Solver): o.actions = <<>>

\* C5: a step() of a solving solver for which no strategy yields an action
\* returns normally with the state HALTED and with grid, candidate domains
\* and log unchanged.
C5_NoActionHaltsNormally ==
  [][(state = SOLVING /\ NoStrategyActs /\ lastOp' = "step")
     => (/\ raised' = "none"
         /\ state' = HALTED
         /\ grid' = grid
         /\ Domains(SolverNext) = Domains(Solver)
         /\ actions' = actions
         /\ action_index' = action_index)]_vars

\* C6: a step() taken while an unfilled free position has an empty candidate
\* domain ends HALTED with no action emitted and with grid, candidate domains
\* and log unchanged.
C6_NegativeEntropyChangesNothing ==
  [][(HasEmptyDomain /\ lastOp' = "step")
     => (/\ state' = HALTED
         /\ batch' = <<>>
         /\ grid' = grid
         /\ Domains(SolverNext) = Domains(Solver)
         /\ actions' = actions
         /\ action_index' = action_index)]_vars

\* C7: a step() of a COMPLETE solver leaves the state COMPLETE and raises no
\* error.
C7_CompleteIsTerminal ==
  [][(state = COMPLETE /\ lastOp' = "step")
     => (state' = COMPLETE /\ raised' = "none")]_vars

\* C8: once the state is HALTED, no step(), perform_action(), undo() or
\* redo() changes it.
C8_HaltedIsTerminal ==
  [][(state = HALTED /\ lastOp' \in NonResetOps) => state' = HALTED]_vars

\* C9: a SetPosition(p, v) that succeeds in a batch is followed at once by
\* the perform of SetPossibleValues(p, {v}) and then of PropagateValue(p).
C9_CascadeInListedOrder ==
  \A i \in 1..Len(performed):
    (performed[i].action.kind = "SetPosition" /\ performed[i].succeeded)
    => /\ i + 2 <= Len(performed)
       /\ performed[i + 1].action =
            SetPossibleValues(performed[i].action.position,
                              {performed[i].action.value})
       /\ performed[i + 2].action = PropagateValue(performed[i].action.position)

\* the perform calls of the last batch that succeeded
Succeeded == SelectSeq(performed, LAMBDA e: e.succeeded)

\* what identifies a logged action: its kind, position and value
Logged(a) == <<a.kind, a.position, a.value>>

\* C10: after a batch, the log holds, after the entries that were before the
\* cursor, exactly the actions whose perform succeeded, in order, and the
\* cursor is at its end; every action of the batch was performed, and besides
\* them only the two cascade actions of each SetPosition that succeeded.
C10_FailedActionsSkipped ==
  (batch # <<>>)
  => /\ Len(actions) = prev.action_index + Len(Succeeded)
     /\ action_index = prev.action_index + Len(Succeeded)
     /\ \A i \in 1..Len(Succeeded):
          Logged(actions[prev.action_index + i]) = Logged(Succeeded[i].action)
     /\ \A i \in 1..Len(batch):
          \E j \in 1..Len(performed): performed[j].action = batch[i]
     /\ Len(performed) =
          Len(batch)
          + 2 * Len(SelectSeq(Succeeded,
                              LAMBDA e: e.action.kind = "SetPosition"))

\* C10, reached: an action of a batch failed and a later action of the batch
\* was performed and logged
C10_Witness ==
  \E i, j \in 1..Len(performed):
    /\ i < j
    /\ ~performed[i].succeeded
    /\ performed[j].succeeded

\* the calls that hand a batch to perform_actions
BatchOps == {"step", "SetPosition", "AddHint", "RemoveHint"}

\* the perform calls of a batch record that succeeded
SucceededOf(calls) == SelectSeq(calls, LAMBDA e: e.succeeded)

\* two logs hold the same actions (kind, position, value) in the same order
SameLog(a, b) ==
  /\ Len(a) = Len(b)
  /\ \A i \in 1..Len(a): Logged(a[i]) = Logged(b[i])

\* C11: when a non-empty batch is performed with the cursor behind the end of
\* the log, the log is afterwards the old entries up to the cursor followed
\* by the entries of the batch, no save point lies beyond the old cursor
\* while those at or below it are kept, and a redo() right after changes
\* nothing.
C11_NewBatchDropsFuture ==
  [][/\ (/\ lastOp' \in BatchOps
         /\ batch' # <<>>
         /\ action_index < Len(actions))
        => (/\ SameLog(actions',
                       SubSeq(actions, 1, action_index)
                       \o [i \in 1..Len(SucceededOf(performed')) |->
                             SucceededOf(performed')[i].action])
            /\ Len(action_results') = Len(actions')
            /\ SubSeq(action_results', 1, action_index)
                 = SubSeq(action_results, 1, action_index)
            /\ \A x \in SeqRange(save_points'): x <= action_index
            /\ \A x \in SeqRange(save_points):
                 x <= action_index => x \in SeqRange(save_points'))
     /\ (/\ lastOp \in BatchOps
         /\ batch # <<>>
         /\ prev.action_index < prev.log_length
         /\ lastOp' = "redo")
        => (/\ View(SolverNext) = View(Solver)
            /\ raised' = "none"
            /\ actions' = actions
            /\ action_results' = action_results
            /\ save_points' = save_points)]_vars

\* C11, reached: a batch that logged an action was performed from a cursor
\* behind the end of the log, and the log is now shorter than it was
C11_Witness ==
  /\ lastOp \in BatchOps
  /\ Succeeded # <<>>
  /\ prev.action_index < prev.log_length
  /\ Len(actions) < prev.log_length
  /\ action_index = Len(actions)

\* C12: a non-empty batch leaves a save point, recorded once, at the cursor
\* it began at; undo() moves the cursor to the greatest save point strictly
\* below it; and an undo() right after a batch that logged an action moves
\* the cursor back to where the batch began and restores grid, domains and
\* hints to what they were then.
C12_UndoRevertsLastBatch ==
  [][/\ (lastOp' \in BatchOps /\ batch' # <<>>)
        => (/\ action_index \in SeqRange(save_points')
            /\ \A i, j \in 1..Len(save_points'):
                 save_points'[i] = save_points'[j] => i = j)
     /\ (/\ lastOp \in BatchOps
         /\ Succeeded # <<>>
         /\ raised = "none"
         /\ lastOp' = "undo")
        => (/\ action_index' = prev.action_index
            /\ raised' = "none"
            /\ grid' = prev.grid
            /\ Domains(SolverNext) = prev.possible_values
            /\ hints' = prev.hints)
     /\ (lastOp' = "undo")
        => (LET below == {x \in SeqRange(save_points): x < action_index}
            IN action_index' = IF below = {} THEN action_index
                               ELSE SetMax(below))]_vars

\* C12, reached: undo() has taken back a batch of three or more entries that
\* was not the first batch of the log
C12_Witness ==
  /\ lastOp = "undo"
  /\ action_index > 0
  /\ action_index \in SeqRange(save_points)
  /\ prev.action_index >= action_index + 3
  /\ \A x \in SeqRange(save_points):
       ~(action_index < x /\ x < prev.action_index)

\* the grid after the SetPosition entries of a piece of the log
RECURSIVE ReplayGrid(_, _)
ReplayGrid(cells, entries) ==
  IF entries = <<>> THEN cells
  ELSE ReplayGrid(
         IF entries[1].kind = "SetPosition"
         THEN [cells EXCEPT ![entries[1].position] = entries[1].value]
         ELSE cells,
         Tail(entries))

\* C13: redo() moves the cursor to the least save point strictly above it, or
\* to the end of the log when there is none; the grid is afterwards what the
\* recorded SetPosition entries in between make it; nothing is raised; and
\* the recorded actions, results and save points are those of before.
C13_RedoReplaysToNextSavePoint ==
  [][(lastOp' = "redo")
     => (LET above == {x \in SeqRange(save_points): x > action_index}
         IN /\ action_index' = IF above = {} THEN Len(actions)
                               ELSE SetMin(above)
            /\ raised' = "none"
            /\ grid' = ReplayGrid(grid, SubSeq(actions, action_index + 1,
                                               action_index'))
            /\ SameLog(actions', actions)
            /\ action_results' = action_results
            /\ save_points' = save_points)]_vars

\* C13, reached: redo() has replayed a batch up to a save point that is not
\* the end of the log
C13_Witness ==
  /\ lastOp = "redo"
  /\ action_index > prev.action_index
  /\ action_index < Len(actions)
  /\ action_index \in SeqRange(save_points)

\* C14: undo() with the cursor at 0 and redo() with the cursor at the end of
\* the log raise nothing and leave grid, domains, hints, log, save points and
\* cursor unchanged.
C14_UndoRedoAtEndsAreNoOps ==
  [][(\/ lastOp' = "undo" /\ action_index = 0
      \/ lastOp' = "redo" /\ action_index = Len(actions))
     => (/\ raised' = "none"
         /\ View(SolverNext) = View(Solver)
         /\ actions' = actions
         /\ action_results' = action_results
         /\ save_points' = save_points)]_vars

\* C14, reached: undo() was called on a solver whose log is empty
C14_Witness ==
  /\ lastOp = "undo"
  /\ prev.log_length = 0
  /\ Len(actions) = 0
  /\ action_index = 0
  /\ raised = "none"

\* the calls that hand a hint action to perform_actions
HintOps == {"AddHint", "RemoveHint"}

\* C19: an AddHint or RemoveHint that does not succeed raises nothing and
\* leaves the hint sets unchanged, and an undo() right after one that
\* succeeded restores the hint sets to what they were before it.
C19_HintFailureAndUndo ==
  [][/\ (lastOp' \in HintOps /\ SucceededOf(performed') = <<>>)
        => (raised' = "none" /\ hints' = hints)
     /\ (lastOp \in HintOps /\ Succeeded # <<>> /\ lastOp' = "undo")
        => hints' = prev.hints]_vars

\* C20: a batch whose only action fails leaves grid, domains, hints, the
\* entries of the log (those after the cursor too) and the cursor unchanged.
C20_FailedBatchChangesNothing ==
  [][(/\ lastOp' \in BatchOps
      /\ Len(performed') = 1
      /\ ~performed'[1].succeeded
      /\ raised' = "none")
     => (/\ grid' = grid
         /\ Domains(SolverNext) = Domains(Solver)
         /\ hints' = hints
         /\ actions' = actions
         /\ action_results' = action_results
         /\ action_index' = action_index)]_vars

\* C15: after a successful PropagateValue(p).perform, with v the value at p,
\* the domain of every position other than p that is visible from p is what
\* it was without v, the domain of every other position (p included) is what
\* it was, and grid and hints are what they were.
C15_PropagateRemovesFromVisibleOnly ==
  (lastOp = "PropagateValue" /\ out.succeeded)
  => LET p == out.position
         v == prev.grid[p]
     IN /\ v # 0
        /\ grid = prev.grid
        /\ hints = prev.hints
        /\ \A q \in PositionSet(game.size):
             Domain(Solver, q) =
               IF q \in game.vision[p] /\ q # p
               THEN prev.possible_values[q] \ {v}
               ELSE prev.possible_values[q]

\* C15, reached: a successful propagation from p took the value from a
\* visible position, while p itself and a position that p does not see
\* hold it still
C15_Witness ==
  /\ lastOp = "PropagateValue"
  /\ out.succeeded
  /\ LET p == out.position
         v == grid[p]
     IN /\ v \in Domain(Solver, p)
        /\ \E q \in game.vision[p] \ {p}:
             v \in prev.possible_values[q] /\ v \notin Domain(Solver, q)
        /\ \E q \in FreeSet(game) \ game.vision[p]: v \in Domain(Solver, q)

\* C16: what detect_groups returns for a round size and the ambiguous
\* domains of a group is None or a non-empty set of positions of the group
\* whose domains hold, together, exactly as many values as there are
\* positions in the set.
C16_DetectedGroupIsExact ==
  lastOp = "detect_groups"
  => \/ out.found = None
     \/ LET S == out.found[1]
        IN /\ S # {}
           /\ S \subseteq DOMAIN out.group
           /\ Cardinality(UNION {out.group[p]: p \in S}) = Cardinality(S)

\* C16, reached: detect_groups returned two positions out of a group of three
\* ambiguous ones
C16_Witness ==
  /\ lastOp = "detect_groups"
  /\ out.found # None
  /\ Cardinality(out.found[1]) = 2
  /\ Cardinality(DOMAIN out.group) = 3

\* C17: the actions the hidden-subset loops return are, each once, the
\* RemovePossibleValue(q, v) of every position q of a vision group outside a
\* subset S of ambiguous positions whose domains hold |S| values together and
\* every v of those values in the domain of q; none targets a position of S;
\* and for the row {1,2}, {1,2}, {1,2,3} they remove 1 and 2 from the third.
C17_HiddenSubsetRemovals ==
  (lastOp = "group_rounds" /\ out # None)
  => /\ \E i \in 1..Len(game.all_vision_groups):
          LET G == game.all_vision_groups[i]
          IN \E S \in SUBSET {p \in G: Cardinality(Domain(Solver, p)) > 1}:
               LET values == UNION {Domain(Solver, p): p \in S}
                   removals ==
                     UNION {{RemovePossibleValue(q, v):
                               v \in values \cap Domain(Solver, q)}
                            : q \in G \ S}
               IN /\ S # {}
                  /\ Cardinality(values) = Cardinality(S)
                  /\ SeqRange(out[1]) = removals
                  /\ Len(out[1]) = Cardinality(removals)
                  /\ \A k \in 1..Len(out[1]): out[1][k].position \notin S
     /\ (/\ Domain(Solver, <<0, 0>>) = {1, 2}
         /\ Domain(Solver, <<0, 1>>) = {1, 2}
         /\ Domain(Solver, <<0, 2>>) = {1, 2, 3})
        => SeqRange(out[1]) = {RemovePossibleValue(<<0, 2>>, 1),
                               RemovePossibleValue(<<0, 2>>, 2)}

\* C17, reached: the loops returned the two removals of the row {1,2}, {1,2},
\* {1,2,3}
C17_Witness ==
  /\ lastOp = "group_rounds"
  /\ out # None
  /\ Domain(Solver, <<0, 0>>) = {1, 2}
  /\ Domain(Solver, <<0, 1>>) = {1, 2}
  /\ Domain(Solver, <<0, 2>>) = {1, 2, 3}
  /\ Len(out[1]) = 2

\* C18: when no member of a chain has for domain the set of the values that
\* occur an odd number of times over the domains of the chain's members,
\* complete_chain returns None for it; and when that is so of every chain
\* that detect_chains returns, the chain part of the strategy returns no
\* action.
C18_UnmatchedChainIsSkipped ==
  LET odd(chain) ==
        {v \in UNION {Domain(Solver, p): p \in chain}:
           Cardinality({p \in chain: v \in Domain(Solver, p)}) % 2 = 1}
      unmatched(chain) == \A p \in chain: Domain(Solver, p) # odd(chain)
  IN /\ (lastOp = "complete_chain" /\ unmatched(out.chain))
        => out.completed = None
     /\ (/\ lastOp = "chain_actions"
         /\ raised = "none"
         /\ \A i \in 1..Len(out.chains): unmatched(out.chains[i]))
        => out.actions = <<>>

\* C18, reached: detect_chains returned the row {1,2}, {2,3}, {1,3} as one
\* chain, in which every value occurs twice, and the chain part of the
\* strategy returned no action
C18_Witness ==
  /\ lastOp = "chain_actions"
  /\ raised = "none"
  /\ out.chains = <<FreeSet(game)>>
  /\ Domain(Solver, <<0, 0>>) = {1, 2}
  /\ Domain(Solver, <<0, 1>>) = {2, 3}
  /\ Domain(Solver, <<0, 2>>) = {1, 3}
  /\ out.actions = <<>>

\* C21: max_allowed_value(p) of a free position p is the lesser of the
\* number of positions of its row and of its column that no blocked cell and
\* no wall separates from it, is at least 1 and at most the grid size.
C21_MaxAllowedIsSmallerGroup ==
  lastOp = "max_allowed_value"
  => LET p == out.position
         lo(a, b) == IF a <= b THEN a ELSE b
         hi(a, b) == IF a <= b THEN b ELSE a
         open(a, b) == /\ a \notin game.blocked_positions
                       /\ b \notin game.blocked_positions
                       /\ Wall(a, b) \notin game.walls
         row == {q \in PositionSet(game.size):
                   /\ q[1] = p[1]
                   /\ \A c \in lo(p[2], q[2])..(hi(p[2], q[2]) - 1):
                        open(<<p[1], c>>, <<p[1], c + 1>>)}
         column == {q \in PositionSet(game.size):
                      /\ q[2] = p[2]
                      /\ \A r \in lo(p[1], q[1])..(hi(p[1], q[1]) - 1):
                           open(<<r, p[2]>>, <<r + 1, p[2]>>)}
     IN /\ out.max_allowed = lo(Cardinality(row), Cardinality(column))
        /\ out.max_allowed >= 1
        /\ out.max_allowed <= game.size

\* C21, reached: on a 3x3 grid with a wall and a blocked cell, a position
\* that sees its whole column and two cells of its row is allowed 2
C21_Witness ==
  /\ lastOp = "max_allowed_value"
  /\ game.size = 3
  /\ game.walls # {}
  /\ game.blocked_positions # {}
  /\ Cardinality(game.vertical_vision[out.position]) = 3
  /\ Cardinality(game.horizontal_vision[out.position]) = 2
  /\ out.max_allowed = 2

\* C23: the horizontal (vertical) vision of a free position p is the set of
\* the positions of its row (column) that no blocked cell and no wall
\* separates from it, and is the horizontal (vertical) vision of each of its
\* members; vision(p) is the union of the two, contains p and no blocked
\* position, and q is in vision(p) exactly when p is in vision(q).
C23_VisionGroupsPartition ==
  lastOp = "vision"
  => LET p == out.position
         lo(a, b) == IF a <= b THEN a ELSE b
         hi(a, b) == IF a <= b THEN b ELSE a
         open(a, b) == /\ a \notin game.blocked_positions
                       /\ b \notin game.blocked_positions
                       /\ Wall(a, b) \notin game.walls
         row == {q \in PositionSet(game.size):
                   /\ q[1] = p[1]
                   /\ \A c \in lo(p[2], q[2])..(hi(p[2], q[2]) - 1):
                        open(<<p[1], c>>, <<p[1], c + 1>>)}
         column == {q \in PositionSet(game.size):
                      /\ q[2] = p[2]
                      /\ \A r \in lo(p[1], q[1])..(hi(p[1], q[1]) - 1):
                           open(<<r, p[2]>>, <<r + 1, p[2]>>)}
     IN /\ out.horizontal = row
        /\ out.vertical = column
        /\ \A q \in out.horizontal: game.horizontal_vision[q] = out.horizontal
        /\ \A q \in out.vertical: game.vertical_vision[q] = out.vertical
        /\ out.vision = row \cup column
        /\ p \in out.vision
        /\ out.vision \cap game.blocked_positions = {}
        /\ \A q \in FreeSet(game): q \in out.vision <=> p \in game.vision[q]

\* C23, reached: on a 3x3 grid the vision of a position stops at a wall in
\* its row and at a blocked cell in its column
C23_Witness ==
  /\ lastOp = "vision"
  /\ game.size = 3
  /\ out.position = <<0, 0>>
  /\ Wall(<<0, 1>>, <<0, 2>>) \in game.walls
  /\ <<1, 0>> \in game.blocked_positions
  /\ out.vision = {<<0, 0>>, <<0, 1>>}

\* C22: after reset() (the constructor's included) the domain of a free
\* position that holds a value is that value alone, and the domain of an
\* empty free position is 1..max_allowed_value without the values of the
\* other positions visible from it.
C22_ResetSeedsDomains ==
  lastOp \in {"init", "reset"}
  => \A p \in FreeSet(game):
       Domain(Solver, p) =
         IF grid[p] # 0 THEN {grid[p]}
         ELSE (1..max_allowed_value(game, p))
                \ {grid[q]: q \in game.vision[p] \ {p}}

\* C24: every set of positions that a call detect_groups(k, group) of the
\* hidden-subset loops returns has exactly k positions, and its domains hold
\* exactly k values together.
C24_FoundGroupHasRoundSize ==
  lastOp = "group_round_calls"
  => \A i \in 1..Len(out):
       out[i].found # None
       => /\ Cardinality(out[i].found[1]) = out[i].size
          /\ Cardinality(UNION {out[i].group[p]: p \in out[i].found[1]})
               = out[i].size

\* C25: when complete_chain returns a completed chain, exactly one member of
\* the chain has for domain the set of the values that occur an odd number of
\* times over the chain, and the completed chain is the chain without that
\* member.
C25_CompletesOnlyUniqueMatch ==
  (lastOp = "complete_chain" /\ out.completed # None)
  => LET odd == {v \in UNION {Domain(Solver, p): p \in out.chain}:
                   Cardinality({p \in out.chain: v \in Domain(Solver, p)}) % 2
                     = 1}
         matching == {p \in out.chain: Domain(Solver, p) = odd}
     IN /\ Cardinality(matching) = 1
        /\ out.completed[1] = out.chain \ matching

\* C26: when, before a step(), the least entropy over the unfilled free
\* positions is 0, the batch of the step is the single action
\* SetPosition(p, v), with p the first in row-major order of the unfilled free
\* positions of entropy 0 and v the one candidate of p.
C26_ZeroEntropyCollapsesFirst ==
  LET unfilled == {p \in FreeSet(game): prev.grid[p] = 0}
      zero == {p \in unfilled: Cardinality(prev.possible_values[p]) = 1}
  IN (/\ lastOp = "step"
      /\ zero # {}
      /\ \A p \in unfilled: Cardinality(prev.possible_values[p]) >= 1)
     => \E p \in zero:
          /\ \A q \in zero: q = p \/ PosLess(p, q)
          /\ \E v \in prev.possible_values[p]: batch = <<SetPosition(p, v)>>

\* C26, reached: a step() taken with two unfilled positions of entropy 0 has
\* set the first of them
C26_Witness ==
  /\ lastOp = "step"
  /\ prev.grid[<<0, 1>>] = 0
  /\ prev.grid[<<1, 0>>] = 0
  /\ Cardinality(prev.possible_values[<<0, 1>>]) = 1
  /\ Cardinality(prev.possible_values[<<1, 0>>]) = 1
  /\ \A p \in FreeSet(game):
       prev.grid[p] = 0 => Cardinality(prev.possible_values[p]) >= 1
  /\ Len(batch) = 1
  /\ batch[1].kind = "SetPosition"
  /\ batch[1].position = <<0, 1>>
  /\ grid[<<0, 1>>] = batch[1].value

\* C27: the solve loop ends: an iteration that leaves the state SOLVING and
\* raises nothing is never followed by an iteration that leaves the state
\* SOLVING and the solver exactly as it was (step_solver depends on the
\* solver alone, so such an iteration would repeat for ever).
C27_SolveLoopTerminates ==
  [][(/\ lastOp' = "solve"
      /\ state' = SOLVING
      /\ raised' = "none")
     => LET again == [SolverNext EXCEPT !.batch = <<>>, !.performed = <<>>]
        IN \A s \in step_solver(game, again):
             [s EXCEPT !.batch = <<>>, !.performed = <<>>] # again]_vars

\* C28: whenever the state is COMPLETE, every free cell holds a value, none
\* larger than max_allowed_value of the cell, and no two distinct cells that
\* see each other hold the same value.
C28_CompleteGridIsSolution ==
  state = COMPLETE
  => \A p \in FreeSet(game):
       /\ grid[p] # 0
       /\ grid[p] <= max_allowed_value(game, p)
       /\ \A q \in game.vision[p] \ {p}: grid[q] # grid[p]

\* C29: the action list and the result list have the same length, the cursor
\* is between 0 and that length, the save points increase strictly and none
\* exceeds that length, and after an undo() that moved the cursor the cursor
\* is a save point.
C29_QueueWellFormed ==
  /\ Len(actions) = Len(action_results)
  /\ 0 <= action_index
  /\ action_index <= Len(actions)
  /\ \A i \in 1..Len(save_points):
       /\ save_points[i] <= Len(actions)
       /\ \A j \in 1..Len(save_points): i < j => save_points[i] < save_points[j]
  /\ (lastOp = "undo" /\ action_index # prev.action_index)
     => action_index \in SeqRange(save_points)

\* C29, reached: undo() has moved the cursor back to the second of three
\* save points, below the end of the log
C29_Witness ==
  /\ lastOp = "undo"
  /\ action_index < prev.action_index
  /\ Len(save_points) >= 3
  /\ action_index = save_points[2]
  /\ action_index < Len(actions)

\* C30: a step() leaves every nonzero grid cell as it was, and the candidates
\* of every position after the step are among its candidates before the step.
C30_StepIsMonotone ==
  lastOp = "step"
  => /\ \A p \in DOMAIN grid: prev.grid[p] # 0 => grid[p] = prev.grid[p]
     /\ \A p \in FreeSet(game): Domain(Solver, p) \subseteq prev.possible_values[p]

\* C30, reached: a step() taken with a cell already filled has filled another
\* cell and discarded a candidate of a third
C30_Witness ==
  /\ lastOp = "step"
  /\ raised = "none"
  /\ \E p, q, r \in FreeSet(game):
       /\ prev.grid[p] # 0
       /\ prev.grid[q] = 0
       /\ grid[q] # 0
       /\ r # q
       /\ Domain(Solver, r) # prev.possible_values[r]
       /\ Domain(Solver, r) # {}

=============================================================================
